---- MODULE Spec2Model ----
(***************************************************************************)
(* The two curriculum -> training-record generators of src/SLM:            *)
(*   variant "A" = dsa-data-gen.py        (emotion-aware records)          *)
(*   variant "B" = dsa-data-generator.py  (question-type records)          *)
(* A run is one invocation of the script: check/open/parse the input file, *)
(* build the record list topic by topic, write the output file, print.     *)
(*                                                                         *)
(* JSON objects are functions from key strings to values (a key that is    *)
(* absent is not in the DOMAIN), JSON arrays are sequences.  A text is the *)
(* sequence of the fragments an f-string concatenates: the literal pieces  *)
(* of the template and the interpolated values, in order.                  *)
(***************************************************************************)
EXTENDS Integers, Sequences, FiniteSets, TLC

\* ------------------------------------------------------------------ bounds
MaxModules == 2        \* modules in a generated curriculum
MaxTopics == 2         \* topics in one module
MaxKeyPoints == 2      \* key_points of a topic
MaxCodeExamples == 2   \* code_examples of a topic
MaxVideos == 1         \* videos of a topic
MaxRuns == 2           \* successive invocations of the script

\* ------------------------------------------------------- dict primitives
Has(d, k) == k \in DOMAIN d
\* dict.get(k, default)
Get(d, k, default) == IF Has(d, k) THEN d[k] ELSE default
\* a dict without keys
NoFields == [k \in {} |-> ""]
IsPrefix(s, t) == Len(s) <= Len(t) /\ \A i \in 1..Len(s) : s[i] = t[i]

RECURSIVE Flatten(_)
Flatten(ss) == IF ss = <<>> THEN <<>> ELSE Head(ss) \o Flatten(Tail(ss))

RECURSIVE SumSeq(_)
SumSeq(ns) == IF ns = <<>> THEN 0 ELSE Head(ns) + SumSeq(Tail(ns))

\* ---------------------------------------------------- static configuration
INPUT_FILE == "dsa_course.json"
OUTPUT_FILE == "dsa_training.json"

EMOTIONS ==
    << [emotion |-> "confused",   tone |-> "calm, slow, reassuring"],
       [emotion |-> "frustrated", tone |-> "supportive, motivating"],
       [emotion |-> "neutral",    tone |-> "clear, structured"],
       [emotion |-> "confident",  tone |-> "challenging, interview-focused"] >>

DefaultContent == "This is an important Data Structures and Algorithms concept."

\* ------------------------------------------------------------ text builders
\* variant A: the f-string of build_teaching_response; .strip() removes
\* nothing because the template neither starts nor ends with whitespace.
build_teaching_response(topic_title, topic_content, emotion_cfg) ==
    << "Student Emotion: ", emotion_cfg.emotion,
       "\nTutor Tone: ", emotion_cfg.tone,
       "\n\nQuestion: Explain ", topic_title,
       "\n\nACKNOWLEDGEMENT:\n...\n\nDEFINITION:\n", topic_content,
       "\n\nINTUITION / REAL-WORLD ANALOGY:\n...\nCODE:\n... int main, comment: ", topic_title,
       " implementation\n cout Hello ", topic_title,
       " endl\n...\nTIME COMPLEXITY:\nO(n)\n\nSPACE COMPLEXITY:\nO(1)\n\nKEY TAKEAWAYS:\n..." >>

\* variant B, type 1
DefinitionText(topic) ==
    << "Question: What is ", topic["title"], "?\nAnswer: ", topic["content"] >>

\* variant B, type 2: "\n".join of the bulleted points (the bullet sign is
\* written "* " here)
RECURSIVE JoinPoints(_)
JoinPoints(points) ==
    IF points = <<>> THEN <<>>
    ELSE IF Len(points) = 1 THEN << "* ", points[1] >>
    ELSE << "* ", points[1], "\n" >> \o JoinPoints(Tail(points))

KeyPointsText(topic) ==
    << "Question: What are the key points of ", topic["title"], "?\nAnswer:\n" >>
        \o JoinPoints(topic["key_points"])

\* variant B, type 3
CodeText(topic, code_ex) ==
    << "Question: Show me code example for ", topic["title"],
       "\nAnswer:\n[cpp fence]\n", code_ex["code"],
       "\n[fence]\nOutput: ", Get(code_ex, "output", "N/A") >>

\* variant B, type 4
VideoText(topic, video) ==
    << "Question: Where can I learn about ", topic["title"],
       "?\nAnswer: Watch this video: ", video["title"], " - ", video["youtube_url"] >>

\* ---------------------------------------------------------- record builders
\* RecordsA with the emotion loop running over EMOTIONS backwards
RecordsA_Reversed(module_title_, topic) ==
    LET topic_title == Get(topic, "title", "Topic")
        topic_content == Get(topic, "content", DefaultContent)
        n == Len(EMOTIONS)
    IN  [e \in 1..n |->
            [ subject |-> "DSA",
              module  |-> module_title_,
              topic   |-> topic_title,
              emotion |-> EMOTIONS[n + 1 - e].emotion,
              text    |-> build_teaching_response(topic_title, topic_content,
                                                  EMOTIONS[n + 1 - e]) ]]

\* variant A, the body of the topic loop: one record per entry of EMOTIONS
RecordsA(module_title_, topic) ==
    LET topic_title == Get(topic, "title", "Topic")
        topic_content == Get(topic, "content", DefaultContent)
    IN  [e \in 1..Len(EMOTIONS) |->
            [ subject |-> "DSA",
              module  |-> module_title_,
              topic   |-> topic_title,
              emotion |-> EMOTIONS[e].emotion,
              text    |-> build_teaching_response(topic_title, topic_content, EMOTIONS[e]) ]]

\* variant B: topic['title'] and topic['content'] are subscripted in the first
\* f-string of the loop body, before anything is appended
RaisesB(topic) == ~Has(topic, "title") \/ ~Has(topic, "content")

\* truthiness of topic.get(k): None and the empty list are both falsy
Truthy(topic, k) == Has(topic, k) /\ topic[k] # <<>>

\* RecordsB with the video block moved in front of the code block
RecordsB_VideosFirst(topic) ==
    << [text |-> DefinitionText(topic)] >>
    \o (IF Truthy(topic, "key_points")
          THEN << [text |-> KeyPointsText(topic)] >> ELSE <<>>)
    \o (IF Truthy(topic, "videos")
          THEN [i \in 1..Len(topic["videos"]) |->
                    [text |-> VideoText(topic, topic["videos"][i])]]
          ELSE <<>>)
    \o (IF Truthy(topic, "code_examples")
          THEN [i \in 1..Len(topic["code_examples"]) |->
                    [text |-> CodeText(topic, topic["code_examples"][i])]]
          ELSE <<>>)

\* variant B, the body of the topic loop, for a topic that does not raise
RecordsB(topic) ==
    << [text |-> DefinitionText(topic)] >>
    \o (IF Truthy(topic, "key_points")
          THEN << [text |-> KeyPointsText(topic)] >> ELSE <<>>)
    \o (IF Truthy(topic, "code_examples")
          THEN [i \in 1..Len(topic["code_examples"]) |->
                    [text |-> CodeText(topic, topic["code_examples"][i])]]
          ELSE <<>>)
    \o (IF Truthy(topic, "videos")
          THEN [i \in 1..Len(topic["videos"]) |->
                    [text |-> VideoText(topic, topic["videos"][i])]]
          ELSE <<>>)

\* AppendAll inserting at the front of the list: insert(0, ...) for append(...)
PrependAll(examples, block) == block \o examples

\* training_examples.append(...), once per record of the block
AppendAll(examples, block) == examples \o block

\* -------------------------------------------------------------- json.dump
\* One JSON object, keys in insertion order of the dict literal.
Encode(rec) ==
    IF Has(rec, "subject")
      THEN << "{ subject: ", rec.subject, ", module: ", rec.module,
              ", topic: ", rec.topic, ", emotion: ", rec.emotion, ", text: " >>
           \o rec.text \o << " }" >>
      ELSE << "{ text: " >> \o rec.text \o << " }" >>

\* The chunks json.dump writes to the file object: the brackets and one
\* chunk per record, every record but the first led by the item separator.
Serialize(examples) ==
    IF examples = <<>> THEN << << "[]" >> >>
    ELSE << << "[" >> >>
         \o [i \in 1..Len(examples) |->
                (IF i > 1 THEN << "," >> ELSE <<>>) \o Encode(examples[i])]
         \o << << "]" >> >>

\* ------------------------------------------------------------ input files
TopicShapes ==
    [c : BOOLEAN, kp : -1..MaxKeyPoints, ce : -1..MaxCodeExamples, vd : -1..MaxVideos]
PlainShape == [c |-> TRUE, kp |-> -1, ce |-> -1, vd |-> -1]

TopicTitle(m, t) == "T" \o ToString(m) \o "." \o ToString(t)

MkCodeExample(i) ==
    ("code" :> ("code" \o ToString(i)))
    @@ (IF i % 2 = 1 THEN ("output" :> ("out" \o ToString(i))) ELSE NoFields)

MkVideo(i) == [title |-> "video" \o ToString(i), youtube_url |-> "url" \o ToString(i)]

\* a topic of the given shape; a count of -1 leaves the field out
MkTopic(m, t, s) ==
    ("title" :> TopicTitle(m, t))
    @@ (IF s.c THEN ("content" :> ("about " \o TopicTitle(m, t))) ELSE NoFields)
    @@ (IF s.kp >= 0
          THEN ("key_points" :> [i \in 1..s.kp |-> "point" \o ToString(i)]) ELSE NoFields)
    @@ (IF s.ce >= 0
          THEN ("code_examples" :> [i \in 1..s.ce |-> MkCodeExample(i)]) ELSE NoFields)
    @@ (IF s.vd >= 0
          THEN ("videos" :> [i \in 1..s.vd |-> MkVideo(i)]) ELSE NoFields)

MkModule(m, topics) == [title |-> "M" \o ToString(m), topics |-> topics]
MkCourse(modules) == [course_name |-> "DSA", modules |-> modules]
JsonFile(course) == [kind |-> "object", doc |-> [obj |-> course]]

\* every module/topic layout with plain topics
LayoutCourses ==
    { MkCourse([m \in 1..Len(cnt) |->
                   MkModule(m, [t \in 1..cnt[m] |-> MkTopic(m, t, PlainShape)])]) :
        cnt \in UNION { [1..n -> 0..MaxTopics] : n \in 0..MaxModules } }

\* one topic of every shape, alone
ShapeCourses ==
    { MkCourse(<< MkModule(1, << MkTopic(1, 1, s) >>) >>) : s \in TopicShapes }

\* one topic of every shape, before or after a plain topic
PairCourses ==
    { MkCourse(<< MkModule(1, << MkTopic(1, 1, s), MkTopic(1, 2, PlainShape) >>) >>) :
        s \in TopicShapes }
    \cup
    { MkCourse(<< MkModule(1, << MkTopic(1, 1, PlainShape), MkTopic(1, 2, s) >>) >>) :
        s \in TopicShapes }

\* documents that leave out a key the code reads
OddCourses ==
    { [modules |-> << MkModule(1, << MkTopic(1, 1, PlainShape) >>) >>],
      [course_name |-> "DSA"],
      MkCourse(<< [topics |-> << MkTopic(1, 1, PlainShape) >>] >>),
      MkCourse(<< [title |-> "M1"] >>),
      MkCourse(<< MkModule(1, << [content |-> "untitled"] >>) >>) }

RECURSIVE CountTopics(_)
CountTopics(modules) ==
    IF modules = <<>> THEN 0
    ELSE Len(Get(Head(modules), "topics", <<>>)) + CountTopics(Tail(modules))

GenInputs ==
    { JsonFile(c) : c \in LayoutCourses \cup ShapeCourses \cup PairCourses \cup OddCourses }

PipelineInputs ==
    { [kind |-> "missing"], [kind |-> "malformed"],
      [kind |-> "object", doc |-> [arr |-> <<>>]] }
    \cup { JsonFile(c) : c \in OddCourses \cup ShapeCourses }
    \cup { JsonFile(c) : c \in { d \in LayoutCourses : CountTopics(d.modules) <= MaxTopics } }

AbsentFile == [exists |-> FALSE, data |-> <<>>]
OldFile == [exists |-> TRUE, data |-> << << "stale output" >> >>]

\* -------------------------------------------------------------------- state
VARIABLES
    variant,            \* which script runs: "A" or "B"
    inFile,             \* the file at INPUT_FILE
    outFile,            \* the file at OUTPUT_FILE: [exists, data]
    outBefore,          \* outFile as it was when the current run started
    prevOk,             \* the previous run ended with the summary printed
    runs,               \* number of the current run
    pc,                 \* position of the driver
    exc,                \* the exception in flight or last caught, "none" if none
    handles,            \* the file objects that are open
    course,             \* the parsed document
    mi,                 \* index of the module being iterated (0: none yet)
    ti,                 \* topics of that module already processed
    module_title,
    training_examples,  \* the record list
    console             \* the lines printed by the current run

vars == << variant, inFile, outFile, outBefore, prevOk, runs, pc, exc, handles,
           course, mi, ti, module_title, training_examples, console >>

NoCourse == [null |-> TRUE]
IsDict(v) == Has(v, "obj")
Modules == Get(course.obj, "modules", <<>>)
TopicsOf(module) == Get(module, "topics", <<>>)
\* the topic loop of the current module, if any, is exhausted
TopicsDone == IF mi = 0 THEN TRUE ELSE ti = Len(TopicsOf(Modules[mi]))

\* the classes `except Exception` matches, among those the run can raise
ExceptionClasses ==
    { "FileNotFoundError", "JSONDecodeError", "KeyError", "AttributeError",
      "TypeError", "PermissionError", "OSError" }

\* where main() / the __main__ block starts
EntryPoint(v) == IF v = "A" THEN "check" ELSE "load"

Fresh(p) ==
    /\ pc = p
    /\ exc = "none"
    /\ handles = {}
    /\ course = NoCourse
    /\ mi = 0
    /\ ti = 0
    /\ module_title = ""
    /\ training_examples = <<>>
    /\ console = <<>>

Init ==
    /\ variant \in {"A", "B"}
    /\ inFile \in PipelineInputs
    /\ outFile \in {AbsentFile, OldFile}
    /\ outBefore = outFile
    /\ prevOk = FALSE
    /\ runs = 1
    /\ Fresh(EntryPoint(variant))

\* generate_training_data alone, applied to every well-formed JSON document
InitGen ==
    /\ variant \in {"A", "B"}
    /\ inFile \in GenInputs
    /\ outFile = AbsentFile
    /\ outBefore = outFile
    /\ prevOk = FALSE
    /\ runs = 1
    /\ Fresh("load")

\* an exception leaves the function; the driver's try statement receives it
Raise(class) ==
    /\ pc' = "raised"
    /\ exc' = class

\* ------------------------------------------------------------------ actions
\* variant A only: os.path.exists(INPUT_FILE), print and return if it is not there
CheckInput ==
    /\ pc = "check"
    /\ IF inFile.kind = "missing"
         THEN /\ console' = Append(console, "ERROR: Input file not found")
              /\ pc' = "error"
         ELSE /\ pc' = "load"
              /\ UNCHANGED console
    /\ UNCHANGED << variant, inFile, outFile, outBefore, prevOk, runs, exc, handles,
                    course, mi, ti, module_title, training_examples >>

\* OpenInput that falls back to an empty course when the file is not there
OpenInputFallback ==
    /\ pc = "load"
    /\ IF inFile.kind = "missing"
         THEN /\ course' = [obj |-> MkCourse(<<>>)]
              /\ pc' = "header"
              /\ UNCHANGED handles
         ELSE /\ handles' = handles \cup {"in"}
              /\ pc' = "parse"
              /\ UNCHANGED course
    /\ UNCHANGED << variant, inFile, outFile, outBefore, prevOk, runs, exc,
                    mi, ti, module_title, training_examples, console >>

\* open(input_file, 'r')
OpenInput ==
    /\ pc = "load"
    /\ IF inFile.kind = "missing"
         THEN /\ Raise("FileNotFoundError")
              /\ UNCHANGED handles
         ELSE /\ handles' = handles \cup {"in"}
              /\ pc' = "parse"
              /\ UNCHANGED exc
    /\ UNCHANGED << variant, inFile, outFile, outBefore, prevOk, runs,
                    course, mi, ti, module_title, training_examples, console >>

\* ParseInput with f.close() after json.load instead of a with block
ParseInputNoWith ==
    /\ pc = "parse"
    /\ IF inFile.kind = "malformed"
         THEN /\ Raise("JSONDecodeError")
              /\ UNCHANGED << course, handles >>
         ELSE /\ course' = inFile.doc
              /\ handles' = handles \ {"in"}
              /\ pc' = "header"
              /\ UNCHANGED exc
    /\ UNCHANGED << variant, inFile, outFile, outBefore, prevOk, runs,
                    mi, ti, module_title, training_examples, console >>

\* json.load(f) and the end of the with block, which closes f on both paths
ParseInput ==
    /\ pc = "parse"
    /\ handles' = handles \ {"in"}
    /\ IF inFile.kind = "malformed"
         THEN /\ Raise("JSONDecodeError")
              /\ UNCHANGED course
         ELSE /\ course' = inFile.doc
              /\ pc' = "header"
              /\ UNCHANGED exc
    /\ UNCHANGED << variant, inFile, outFile, outBefore, prevOk, runs,
                    mi, ti, module_title, training_examples, console >>

\* Header of a driver that opens the output file before it builds the records
HeaderOpensOutput ==
    /\ pc = "header"
    /\ training_examples' = <<>>
    /\ outFile' = [exists |-> TRUE, data |-> <<>>]
    /\ IF ~IsDict(course)
         THEN /\ Raise(IF variant = "A" THEN "AttributeError" ELSE "TypeError")
              /\ UNCHANGED console
         ELSE IF variant = "B" /\ ~Has(course.obj, "course_name")
         THEN /\ Raise("KeyError")
              /\ UNCHANGED console
         ELSE /\ console' = Append(console,
                    "Processing: " \o Get(course.obj, "course_name", "DSA Course"))
              /\ pc' = "loop"
              /\ UNCHANGED exc
    /\ UNCHANGED << variant, inFile, outBefore, prevOk, runs, handles,
                    course, mi, ti, module_title >>

\* training_examples = [] and the "Processing" line: A reads course.get(...),
\* B subscripts course['course_name']
Header ==
    /\ pc = "header"
    /\ training_examples' = <<>>
    /\ IF ~IsDict(course)
         THEN /\ Raise(IF variant = "A" THEN "AttributeError" ELSE "TypeError")
              /\ UNCHANGED console
         ELSE IF variant = "B" /\ ~Has(course.obj, "course_name")
         THEN /\ Raise("KeyError")
              /\ UNCHANGED console
         ELSE /\ console' = Append(console,
                    "Processing: " \o Get(course.obj, "course_name", "DSA Course"))
              /\ pc' = "loop"
              /\ UNCHANGED exc
    /\ UNCHANGED << variant, inFile, outFile, outBefore, prevOk, runs, handles,
                    course, mi, ti, module_title >>

\* the module loop takes its next module: A reads module.get("title", "Module"),
\* B subscripts module['title']
EnterModule ==
    /\ pc = "loop"
    /\ mi < Len(Modules)
    /\ TopicsDone
    /\ mi' = mi + 1
    /\ ti' = 0
    /\ IF variant = "B" /\ ~Has(Modules[mi + 1], "title")
         THEN /\ Raise("KeyError")
              /\ UNCHANGED module_title
         ELSE /\ module_title' = Get(Modules[mi + 1], "title", "Module")
              /\ UNCHANGED << pc, exc >>
    /\ UNCHANGED << variant, inFile, outFile, outBefore, prevOk, runs, handles,
                    course, training_examples, console >>

\* one pass of the topic loop
BuildTopic ==
    /\ pc = "loop"
    /\ mi >= 1
    /\ ti < Len(TopicsOf(Modules[mi]))
    /\ ti' = ti + 1
    /\ LET topic == TopicsOf(Modules[mi])[ti + 1]
       IN  IF variant = "A"
             THEN /\ training_examples' =
                        AppendAll(training_examples, RecordsA(module_title, topic))
                  /\ UNCHANGED << pc, exc >>
             ELSE IF RaisesB(topic)
             THEN /\ Raise("KeyError")
                  /\ UNCHANGED training_examples
             ELSE /\ training_examples' = AppendAll(training_examples, RecordsB(topic))
                  /\ UNCHANGED << pc, exc >>
    /\ UNCHANGED << variant, inFile, outFile, outBefore, prevOk, runs, handles,
                    course, mi, module_title, console >>

\* both loops are exhausted: print the count and return training_examples
Return ==
    /\ pc = "loop"
    /\ mi = Len(Modules)
    /\ TopicsDone
    /\ console' = Append(console, "Generated " \o ToString(Len(training_examples)))
    /\ pc' = "save"
    /\ UNCHANGED << variant, inFile, outFile, outBefore, prevOk, runs, exc, handles,
                    course, mi, ti, module_title, training_examples >>

\* OpenOutput with mode 'a': what the file holds is kept
OpenOutputAppend ==
    /\ pc = "save"
    /\ \E ok \in BOOLEAN :
         IF ok
           THEN /\ outFile' = [exists |-> TRUE, data |-> outFile.data]
                /\ handles' = handles \cup {"out"}
                /\ pc' = "dump"
                /\ UNCHANGED exc
           ELSE /\ Raise("PermissionError")
                /\ UNCHANGED << outFile, handles >>
    /\ UNCHANGED << variant, inFile, outBefore, prevOk, runs,
                    course, mi, ti, module_title, training_examples, console >>

\* open(output_file, 'w'): creates or truncates the file, unless the open fails
OpenOutput ==
    /\ pc = "save"
    /\ \E ok \in BOOLEAN :
         IF ok
           THEN /\ outFile' = [exists |-> TRUE, data |-> <<>>]
                /\ handles' = handles \cup {"out"}
                /\ pc' = "dump"
                /\ UNCHANGED exc
           ELSE /\ Raise("PermissionError")
                /\ UNCHANGED << outFile, handles >>
    /\ UNCHANGED << variant, inFile, outBefore, prevOk, runs,
                    course, mi, ti, module_title, training_examples, console >>

\* json.dump writes its next chunk; a failed write leaves the with block,
\* which closes the file, and what was written stays in it
DumpChunk ==
    /\ pc = "dump"
    /\ Len(outFile.data) < Len(Serialize(training_examples))
    /\ \E ok \in BOOLEAN :
         IF ok
           THEN /\ outFile' = [outFile EXCEPT !.data =
                      Append(@, Serialize(training_examples)[Len(@) + 1])]
                /\ UNCHANGED << pc, exc, handles >>
           ELSE /\ handles' = handles \ {"out"}
                /\ Raise("OSError")
                /\ UNCHANGED outFile
    /\ UNCHANGED << variant, inFile, outBefore, prevOk, runs,
                    course, mi, ti, module_title, training_examples, console >>

\* json.dump is done: the with block closes the file, "saved" is printed
CloseOutput ==
    /\ pc = "dump"
    /\ Len(outFile.data) = Len(Serialize(training_examples))
    /\ handles' = handles \ {"out"}
    /\ console' = Append(console, "Saved to " \o OUTPUT_FILE)
    /\ pc' = "saved"
    /\ UNCHANGED << variant, inFile, outFile, outBefore, prevOk, runs, exc,
                    course, mi, ti, module_title, training_examples >>

\* the closing prints of the try block
Summary ==
    /\ pc = "saved"
    /\ console' = Append(console,
          IF variant = "A"
            THEN "Total samples: " \o ToString(Len(training_examples))
            ELSE "NEXT: Upload " \o OUTPUT_FILE)
    /\ pc' = "summary"
    /\ UNCHANGED << variant, inFile, outFile, outBefore, prevOk, runs, exc, handles,
                    course, mi, ti, module_title, training_examples >>

\* Catch with `except OSError`: only OSError and its subclasses are caught
CatchOnlyOSError ==
    /\ pc = "raised"
    /\ IF exc \in {"OSError", "FileNotFoundError", "PermissionError"}
         THEN /\ console' = Append(console, "ERROR: " \o exc)
              /\ pc' = "error"
         ELSE /\ pc' = "crashed"
              /\ UNCHANGED console
    /\ UNCHANGED << variant, inFile, outFile, outBefore, prevOk, runs, exc, handles,
                    course, mi, ti, module_title, training_examples >>

\* except Exception as e: print the message; anything else would propagate
Catch ==
    /\ pc = "raised"
    /\ IF exc \in ExceptionClasses
         THEN /\ console' = Append(console, "ERROR: " \o exc)
              /\ pc' = "error"
         ELSE /\ pc' = "crashed"
              /\ UNCHANGED console
    /\ UNCHANGED << variant, inFile, outFile, outBefore, prevOk, runs, exc, handles,
                    course, mi, ti, module_title, training_examples >>

\* the script is invoked again: a new process, the same two files
StartRun ==
    /\ pc \in {"summary", "error"}
    /\ runs < MaxRuns
    /\ runs' = runs + 1
    /\ outBefore' = outFile
    /\ prevOk' = (pc = "summary")
    /\ pc' = EntryPoint(variant)
    /\ exc' = "none"
    /\ handles' = {}
    /\ course' = NoCourse
    /\ mi' = 0
    /\ ti' = 0
    /\ module_title' = ""
    /\ training_examples' = <<>>
    /\ console' = <<>>
    /\ UNCHANGED << variant, inFile, outFile >>

\* one step of a run
RunStep ==
    \/ CheckInput
    \/ OpenInput
    \/ ParseInput
    \/ Header
    \/ EnterModule
    \/ BuildTopic
    \/ Return
    \/ OpenOutput
    \/ DumpChunk
    \/ CloseOutput
    \/ Summary
    \/ Catch

Next == RunStep \/ StartRun

Spec == Init /\ [][Next]_vars

NextGen ==
    \/ OpenInput
    \/ ParseInput
    \/ Header
    \/ EnterModule
    \/ BuildTopic
    \/ Return

SpecGen == InitGen /\ [][NextGen]_vars

TypeOK ==
    /\ pc \in {"check", "load", "parse", "header", "loop", "save", "dump", "saved",
               "summary", "raised", "error", "crashed"}
    /\ handles \subseteq {"in", "out"}
    /\ runs \in 1..MaxRuns
    /\ exc \in ExceptionClasses \cup {"none"}

\* ------------------------------------------------- vocabulary of the claims
\* the topics of a document in file order, each with the module it is in
RECURSIVE FileOrder(_)
FileOrder(modules) ==
    IF modules = <<>> THEN <<>>
    ELSE [t \in 1..Len(TopicsOf(Head(modules))) |->
              [module |-> Head(modules), topic |-> TopicsOf(Head(modules))[t]]]
         \o FileOrder(Tail(modules))

EmotionOrder == << "confused", "frustrated", "neutral", "confident" >>

\* every key the data model requires is there (content and the lists are optional)
WellShaped ==
    /\ IsDict(course)
    /\ Has(course.obj, "course_name")
    /\ \A m \in 1..Len(Modules) :
          /\ Has(Modules[m], "title")
          /\ \A t \in 1..Len(TopicsOf(Modules[m])) : Has(TopicsOf(Modules[m])[t], "title")

\* generate_training_data has returned its list to the driver
Returned == pc \in {"save", "dump", "saved", "summary"} \/ exc \in {"PermissionError", "OSError"}

\* ---------------------------------------------------------------------- C1
\* C1: when variant A returns, the list has exactly 4 records per topic, and the
\* records 4k+1..4k+4 (counting from 1) are those of the k-th topic in file order,
\* for confused, frustrated, neutral, confident, in that order.
C1_FourPerTopicInOrder ==
    (variant = "A" /\ pc = "save") =>
        LET ft == FileOrder(Modules)
        IN  /\ Len(training_examples) = 4 * Len(ft)
            /\ \A k \in 1..Len(ft) : \A e \in 1..4 :
                  LET r == training_examples[4 * (k - 1) + e]
                  IN  /\ r.topic = Get(ft[k].topic, "title", "Topic")
                      /\ r.module = Get(ft[k].module, "title", "Module")
                      /\ r.emotion = EmotionOrder[e]
                      /\ r.text[2] = EmotionOrder[e]
                      /\ r.text[6] = r.topic
                      /\ r.text[8] = Get(ft[k].topic, "content", DefaultContent)

C1_Witness ==
    /\ variant = "A"
    /\ pc = "save"
    /\ Len(Modules) >= 2
    /\ Len(training_examples) >= 12

\* ---------------------------------------------------------------------- C2
CountB(topic) ==
    1 + (IF Has(topic, "key_points") /\ topic["key_points"] # <<>> THEN 1 ELSE 0)
      + Len(Get(topic, "code_examples", <<>>))
      + Len(Get(topic, "videos", <<>>))

ExpectedCountB ==
    LET ft == FileOrder(Modules)
    IN  SumSeq([k \in 1..Len(ft) |-> CountB(ft[k].topic)])

\* C2: when variant B's generation of a well-shaped document has ended, every
\* topic has contributed 1 + (1 if key_points is non-empty) + len(code_examples)
\* + len(videos) records, so the list holds the sum of that over all topics.
C2_RecordCountB ==
    (variant = "B" /\ WellShaped /\ pc \in {"save", "raised"}) =>
        Len(training_examples) = ExpectedCountB

\* the part of C2 the code does satisfy: the count of every list it returns
C2_CountOfReturnedList ==
    (variant = "B" /\ pc = "save") => Len(training_examples) = ExpectedCountB

\* ---------------------------------------------------------------------- C3
\* the definition records of a topic: A's four records, B's "What is" record
IsDefinitionOf(rec, topic, content) ==
    IF variant = "A"
      THEN rec.topic = topic["title"] /\ rec.text[8] = content
      ELSE rec.text[1] = "Question: What is " /\ rec.text[2] = topic["title"]
           /\ rec.text[4] = content

\* C3: on a well-shaped document no run fails on a missing key, and once the
\* list is returned every topic without content has its definition record(s)
\* carrying the fallback sentence.
C3_MissingContentFallsBack ==
    WellShaped =>
        /\ exc # "KeyError"
        /\ Returned =>
              \A k \in 1..Len(FileOrder(Modules)) :
                  LET topic == FileOrder(Modules)[k].topic
                  IN  ~Has(topic, "content") =>
                        Cardinality({ i \in 1..Len(training_examples) :
                            IsDefinitionOf(training_examples[i], topic, DefaultContent) })
                        = (IF variant = "A" THEN 4 ELSE 1)

\* ---------------------------------------------------------------------- C4
WrittenFile(examples) == [exists |-> TRUE, data |-> Serialize(examples)]

\* C4 as stated: at every moment the output file is either as it was before the
\* run or the complete serialization of the full record list.
C4_NeverPartial ==
    \/ outFile = outBefore
    \/ /\ pc \in {"dump", "saved", "summary", "raised", "error"}
       /\ outFile = WrittenFile(training_examples)

\* both loops have run to their end
BuildComplete == IsDict(course) /\ mi = Len(Modules) /\ TopicsDone

\* C4 amended: the output file is opened only after every topic's records are
\* built; until it is opened, and after a failure of load, build or the open
\* itself, it is as it was before the run; from then on it holds a prefix of the
\* serialization of the full list, all of it once the writer returns, and a
\* strict prefix (a truncated file) after a failed write.
C4_WriteAfterBuildPrefixOnly ==
    /\ "out" \in handles => pc = "dump"
    /\ Returned => BuildComplete
    /\ (pc \in {"check", "load", "parse", "header", "loop", "save", "raised", "error"}
            /\ exc # "OSError") => outFile = outBefore
    /\ (pc \in {"dump", "saved", "summary"} \/ exc = "OSError") =>
            /\ outFile.exists
            /\ IsPrefix(outFile.data, Serialize(training_examples))
    /\ pc \in {"saved", "summary"} => outFile = WrittenFile(training_examples)
    /\ exc = "OSError" => outFile # WrittenFile(training_examples)

C4_Witness ==
    /\ pc = "error"
    /\ exc = "OSError"
    /\ Len(outFile.data) >= 2
    /\ outBefore = OldFile

\* ---------------------------------------------------------------------- C5
\* C5: while the input file is missing the output file stays as it was before the
\* run, the writer never starts, no output handle is opened, and a run that has
\* ended has ended with exactly one line printed, the error.
C5_MissingInputLeavesOutput ==
    inFile.kind = "missing" =>
        /\ outFile = outBefore
        /\ outFile \in {AbsentFile, OldFile}
        /\ "out" \notin handles
        /\ pc \in {"check", "load", "raised", "error"}
        /\ pc = "error" =>
              console \in { << "ERROR: Input file not found" >>,
                            << "ERROR: FileNotFoundError" >> }

C5_Witness ==
    /\ inFile.kind = "missing"
    /\ pc = "error"
    /\ runs = MaxRuns
    /\ outFile = OldFile

\* ---------------------------------------------------------------------- C6
PcRank ==
    CASE pc = "check" -> 9 [] pc = "load" -> 8 [] pc = "parse" -> 7
      [] pc = "header" -> 6 [] pc = "loop" -> 5 [] pc = "save" -> 4
      [] pc = "dump" -> 3 [] pc = "saved" -> 2 [] pc = "raised" -> 1
      [] OTHER -> 0

\* what is left of the loops, or of the dump
Remaining ==
    IF pc = "loop"
      THEN << Len(Modules) - mi, IF mi = 0 THEN 0 ELSE Len(TopicsOf(Modules[mi])) - ti >>
    ELSE IF pc = "dump"
      THEN << 0, Len(Serialize(training_examples)) - Len(outFile.data) >>
    ELSE << 0, 0 >>

Measure == << PcRank, Remaining[1], Remaining[2] >>

LexLess(a, b) ==
    \/ a[1] < b[1]
    \/ a[1] = b[1] /\ a[2] < b[2]
    \/ a[1] = b[1] /\ a[2] = b[2] /\ a[3] < b[3]

ErrorLines == { "ERROR: " \o c : c \in ExceptionClasses } \cup { "ERROR: Input file not found" }

C6_State ==
    /\ pc # "crashed"
    /\ pc \notin {"summary", "error"} => ENABLED RunStep
    /\ (exc # "none" /\ pc # "raised") => pc = "error"
    /\ pc = "error" => console[Len(console)] \in ErrorLines
    /\ pc = "summary" => exc = "none"

\* C6: no exception leaves the driver: a run never crashes, every raised
\* exception is caught and reported, a run that has not ended can always take a
\* step, and every step of a run brings it closer to its end, so that every run
\* ends with the summary or with the error printed.
C6_DriverCatchesAll ==
    /\ []C6_State
    /\ [][runs' = runs => LexLess(Measure', Measure)]_vars

C6_Witness ==
    /\ pc = "error"
    /\ exc = "KeyError"
    /\ variant = "B"

\* ---------------------------------------------------------------------- C7
\* what a record of variant B says: its question type, its topic, its payload
Describe(rec) ==
    << CASE rec.text[1] = "Question: What is " -> "definition"
         [] rec.text[1] = "Question: What are the key points of " -> "key_points"
         [] rec.text[1] = "Question: Show me code example for " -> "code"
         [] rec.text[1] = "Question: Where can I learn about " -> "video"
         [] OTHER -> "unknown",
       rec.text[2],
       rec.text[4] >>

\* the block a topic is to contribute, in the order the claim gives
BlockOrderB(topic) ==
    LET title == Get(topic, "title", "Topic")
        points == Get(topic, "key_points", <<>>)
        codes == Get(topic, "code_examples", <<>>)
        videos == Get(topic, "videos", <<>>)
    IN  << << "definition", title, Get(topic, "content", DefaultContent) >> >>
        \o (IF points # <<>> THEN << << "key_points", title, "* " >> >> ELSE <<>>)
        \o [i \in 1..Len(codes) |-> << "code", title, codes[i]["code"] >>]
        \o [i \in 1..Len(videos) |-> << "video", title, videos[i]["title"] >>]

ListOrderB ==
    LET ft == FileOrder(Modules)
    IN  Flatten([k \in 1..Len(ft) |-> BlockOrderB(ft[k].topic)])

C8_SecondRunSameOutput ==
    pc = "summary" =>
        /\ outFile = WrittenFile(training_examples)
        /\ prevOk => outFile = outBefore

C8_Witness ==
    /\ pc = "summary"
    /\ prevOk
    /\ runs >= 2
    /\ Len(outFile.data) >= 4

\* ---------------------------------------------------------------------- C9
\* C9: at most one file handle is open at any time, the input handle only while
\* the document is read and the output handle only while it is written, and none
\* is open once an exception has left the function or the run has ended.
C9_HandlesClosed ==
    /\ Cardinality(handles) <= 1
    /\ "in" \in handles => pc = "parse"
    /\ "out" \in handles => pc = "dump"
    /\ pc \in {"raised", "error", "summary", "crashed"} => handles = {}

C9_Witness ==
    /\ pc = "error"
    /\ exc = "JSONDecodeError"
    /\ handles = {}

\* --------------------------------------------------------------------- C10
\* C10: within a run every step leaves the record list a prefix of what it
\* becomes, and only a step of the loops changes it: from the end of the last
\* topic through the write the list stays as it is.
C10_AppendOnly ==
    [][runs' = runs =>
          /\ IsPrefix(training_examples, training_examples')
          /\ pc' # "loop" => training_examples' = training_examples]_vars

C10_Witness ==
    /\ pc = "dump"
    /\ Len(FileOrder(Modules)) >= 2
    /\ Len(training_examples) >= 2
    /\ Len(outFile.data) >= 1

====
